---- MODULE Spec2Model ----
(***************************************************************************)
(* Model of the scalar-field resolver of prost-derive (field/scalar.rs)    *)
(* and of the client generator of ntex-grpc-codegen (generator.rs).        *)
(*                                                                         *)
(* Text is modelled as sequences of one-character strings, so that         *)
(* trimming, prefix stripping, literal lexing and path formatting are      *)
(* computed, not assumed.  Integers are modelled as decimal digit          *)
(* sequences with a sign, so that the 32/64/128-bit ranges are exact.      *)
(***************************************************************************)
EXTENDS Integers, Sequences, FiniteSets, TLC

VARIABLES
    pc,               \* which operation has been applied to the drawn input
    ty,               \* from_lit / new: the scalar type
    lit,              \* from_lit: the literal
    overflow_checks,  \* build profile: arithmetic overflow panics (TRUE) or wraps
    dv,               \* from_lit / new: the outcome
    attrs,            \* Field::new: the attribute list
    inferred_tag,     \* Field::new: the positional tag, or NoTag
    res,              \* Field::new / new_oneof: the outcome
    enc,              \* Field::encode: the emitted fragment
    elen,             \* Field::encoded_len: the emitted fragment
    service,          \* generate_client: the service descriptor
    m_defs,           \* generate_client: the method definitions emitted so far
    methods,          \* generate_client: the method stubs emitted so far
    buf               \* generate_client: the output buffer

vars == <<pc, ty, lit, overflow_checks, dv, attrs, inferred_tag, res, enc, elen,
          service, m_defs, methods, buf>>

------------------------------------------------------------------------------
(* Characters and text *)

Digits == {"0", "1", "2", "3", "4", "5", "6", "7", "8", "9"}

DigitSeq == <<"0", "1", "2", "3", "4", "5", "6", "7", "8", "9">>

DigitVal(c) == (CHOOSE i \in 1..10 : DigitSeq[i] = c) - 1

Letters == {"a", "b", "c", "d", "e", "f", "g", "h", "i", "j", "k", "l", "m",
            "n", "o", "p", "q", "r", "s", "t", "u", "v", "w", "x", "y", "z",
            "A", "B", "C", "D", "E", "F", "G", "H", "I", "J", "K", "L", "M",
            "N", "O", "P", "Q", "R", "S", "T", "U", "V", "W", "X", "Y", "Z",
            "_"}

Whitespace == {" ", "\t", "\n"}

IsDigits(s) == \A i \in 1..Len(s) : s[i] \in Digits

\* xid_ok: an identifier (XID_Start | '_') XID_Continue*
IsIdent(s) ==
    /\ Len(s) > 0
    /\ s[1] \in Letters
    /\ \A i \in 1..Len(s) : s[i] \in Letters \cup Digits

StartsWith(s, p) == Len(s) >= Len(p) /\ SubSeq(s, 1, Len(p)) = p

Drop(s, n) == SubSeq(s, n + 1, Len(s))

RECURSIVE TrimStart(_)
TrimStart(s) ==
    IF Len(s) > 0 /\ s[1] \in Whitespace THEN TrimStart(Tail(s)) ELSE s

RECURSIVE TrimEnd(_)
TrimEnd(s) ==
    IF Len(s) > 0 /\ s[Len(s)] \in Whitespace
    THEN TrimEnd(SubSeq(s, 1, Len(s) - 1)) ELSE s

\* str::trim
Trim(s) == TrimEnd(TrimStart(s))

\* Length of the longest prefix of s made of characters of set cs.
RECURSIVE SpanLen(_, _)
SpanLen(s, cs) ==
    IF Len(s) > 0 /\ s[1] \in cs THEN 1 + SpanLen(Tail(s), cs) ELSE 0

------------------------------------------------------------------------------
(* Decimal numbers of arbitrary size: an unsigned magnitude is a digit     *)
(* sequence, a signed value is [neg, mag] with mag free of leading zeros.  *)

RECURSIVE StripZeros(_)
StripZeros(d) ==
    IF Len(d) > 1 /\ d[1] = "0" THEN StripZeros(Tail(d)) ELSE d

\* a <= b for magnitudes free of leading zeros
MagLeq(a, b) ==
    \/ Len(a) < Len(b)
    \/ /\ Len(a) = Len(b)
       /\ \/ a = b
          \/ \E i \in 1..Len(a) :
                /\ \A j \in 1..(i - 1) : a[j] = b[j]
                /\ DigitVal(a[i]) < DigitVal(b[i])

IsZero(m) == m = <<"0">>

Num(neg, mag) == [neg |-> neg /\ ~IsZero(mag), mag |-> mag]

I32_MAX == <<"2","1","4","7","4","8","3","6","4","7">>
I32_MIN_MAG == <<"2","1","4","7","4","8","3","6","4","8">>
U32_MAX == <<"4","2","9","4","9","6","7","2","9","5">>
I64_MAX == <<"9","2","2","3","3","7","2","0","3","6","8","5","4","7","7","5","8","0","7">>
I64_MIN_MAG == <<"9","2","2","3","3","7","2","0","3","6","8","5","4","7","7","5","8","0","8">>
U64_MAX == <<"1","8","4","4","6","7","4","4","0","7","3","7","0","9","5","5","1","6","1","5">>
I128_MAX == <<"1","7","0","1","4","1","1","8","3","4","6","0","4","6","9","2","3","1","7",
              "3","1","6","8","7","3","0","3","7","1","5","8","8","4","1","0","5","7","2","7">>
I128_MIN_MAG == <<"1","7","0","1","4","1","1","8","3","4","6","0","4","6","9","2","3","1","7",
                  "3","1","6","8","7","3","0","3","7","1","5","8","8","4","1","0","5","7","2","8">>

\* The integer types from_lit parses into or narrows to.
IntTypes == {"i32", "i64", "i128", "u32", "u64"}

IsSigned(w) == w \in {"i32", "i64", "i128"}

MaxOf(w) ==
    IF w = "i32" THEN I32_MAX
    ELSE IF w = "i64" THEN I64_MAX
    ELSE IF w = "i128" THEN I128_MAX
    ELSE IF w = "u32" THEN U32_MAX
    ELSE U64_MAX

MinMagOf(w) ==
    IF w = "i32" THEN I32_MIN_MAG
    ELSE IF w = "i64" THEN I64_MIN_MAG
    ELSE IF w = "i128" THEN I128_MIN_MAG
    ELSE <<"0">>

\* n (a signed value) is representable in integer type w
InRange(n, w) == MagLeq(n.mag, IF n.neg THEN MinMagOf(w) ELSE MaxOf(w))

NoNum == [neg |-> FALSE, mag |-> <<>>]

\* <w as FromStr>::from_str on base-10 digits with an optional sign
\* (LitInt::base10_parse::<w>): a '-' is a sign only for a signed type.
ParseDigits(neg, body, w) ==
    IF Len(body) > 0 /\ IsDigits(body) /\ InRange(Num(neg, StripZeros(body)), w)
    THEN [ok |-> TRUE, n |-> Num(neg, StripZeros(body))]
    ELSE [ok |-> FALSE, n |-> NoNum]

ParseInt(s, w) ==
    IF Len(s) > 0 /\ s[1] = "-" /\ IsSigned(w)
    THEN ParseDigits(TRUE, Tail(s), w)
    ELSE ParseDigits(FALSE, s, w)

\* unary minus on a value of signed type w: "ok", or "overflow" on the minimum
Negate(n, w) ==
    IF n.neg /\ n.mag = MinMagOf(w)
    THEN [ovf |-> TRUE, n |-> n]
    ELSE [ovf |-> FALSE, n |-> Num(~n.neg, n.mag)]

\* <w as TryFrom<v>>::try_from
TryFrom(n, w) == [ok |-> InRange(n, w), n |-> n]

------------------------------------------------------------------------------
(* syn::Lit: [k, text, suffix, b].  For Int and Float, text is the base-10 *)
(* digits (with a leading '-' for a negative literal) and suffix the type  *)
(* suffix; for Str, ByteStr and Char, text is the value; for Bool, b.      *)

LitInt(digits, suffix) == [k |-> "Int", text |-> digits, suffix |-> suffix, b |-> FALSE]

LitFloat(digits, suffix) == [k |-> "Float", text |-> digits, suffix |-> suffix, b |-> FALSE]

LitBool(b) == [k |-> "Bool", text |-> <<>>, suffix |-> <<>>, b |-> b]

LitStr(value) == [k |-> "Str", text |-> value, suffix |-> <<>>, b |-> FALSE]

LitByteStr(value) == [k |-> "ByteStr", text |-> value, suffix |-> <<>>, b |-> FALSE]

LitChar(value) == [k |-> "Char", text |-> value, suffix |-> <<>>, b |-> FALSE]

NoLit == [k |-> "None", text |-> <<>>, suffix |-> <<>>, b |-> FALSE]

ParseErr == [ok |-> FALSE, lit |-> NoLit]

ParseOk(l) == [ok |-> TRUE, lit |-> l]

\* The literal made of digits and suffix: a suffix must be an identifier.
NumberLit(float, digits, suffix) ==
    IF suffix # <<>> /\ ~IsIdent(suffix) THEN ParseErr
    ELSE IF float THEN ParseOk(LitFloat(digits, suffix))
    ELSE ParseOk(LitInt(digits, suffix))

\* n characters of t are the number, the rest is the suffix.
SplitNumber(t, sign, float, n) == NumberLit(float, sign \o SubSeq(t, 1, n), Drop(t, n))

\* Length of the exponent ('e' and digits) at the head of r, 0 if none.
ExponentLen(r) ==
    IF Len(r) >= 2 /\ r[1] \in {"e", "E"} /\ r[2] \in Digits
    THEN 1 + SpanLen(Tail(r), Digits) ELSE 0

\* Length of the fraction ('.' and digits) at the head of r, 0 if none.
FractionLen(r) ==
    IF Len(r) >= 2 /\ r[1] = "." /\ r[2] \in Digits
    THEN 1 + SpanLen(Tail(r), Digits) ELSE 0

WithExponent(t, sign, n12, frac, n3) == SplitNumber(t, sign, frac \/ n3 > 0, n12 + n3)

WithFraction(t, sign, n1, n2) ==
    WithExponent(t, sign, n1 + n2, n2 > 0, ExponentLen(Drop(t, n1 + n2)))

WithDigits(t, sign, n1) == WithFraction(t, sign, n1, FractionLen(Drop(t, n1)))

\* A numeric literal token spanning all of t (which starts with a digit):
\* digits, an optional fraction, an optional exponent, an optional suffix.
\* A literal without fraction or exponent is an integer literal whatever
\* its suffix is.
LexNumber(t, sign) == WithDigits(t, sign, SpanLen(t, Digits))

\* The literal after a '-': a numeric literal, or nothing.
LexNegative(r) ==
    IF Len(r) > 0 /\ r[1] \in Digits THEN LexNumber(r, <<"-">>) ELSE ParseErr

\* One token spanning all of t.
LexToken(t) ==
    IF Len(t) = 0 THEN ParseErr
    ELSE IF t[1] = "-" THEN LexNegative(TrimStart(Tail(t)))
    ELSE IF t[1] \in Digits THEN LexNumber(t, <<>>)
    ELSE IF t = <<"t", "r", "u", "e">> THEN ParseOk(LitBool(TRUE))
    ELSE IF t = <<"f", "a", "l", "s", "e">> THEN ParseOk(LitBool(FALSE))
    ELSE IF t[1] = "\"" THEN
        IF Len(t) >= 2 /\ t[Len(t)] = "\""
           /\ \A i \in 2..(Len(t) - 1) : t[i] # "\""
        THEN ParseOk(LitStr(SubSeq(t, 2, Len(t) - 1)))
        ELSE ParseErr
    ELSE IF Len(t) >= 3 /\ t[1] = "b" /\ t[2] = "\"" THEN
        IF t[Len(t)] = "\"" /\ \A i \in 3..(Len(t) - 1) : t[i] # "\""
        THEN ParseOk(LitByteStr(SubSeq(t, 3, Len(t) - 1)))
        ELSE ParseErr
    ELSE ParseErr

\* syn::parse_str::<Lit>: the text is lexed into tokens (white space between
\* tokens is skipped) and must be exactly one literal, `true`, `false`, or a
\* '-' followed by one numeric literal.
parse_str_Lit(s) == LexToken(Trim(s))

------------------------------------------------------------------------------
(* Ty: [name, path]; path is the enum's path for Enumeration, else empty.  *)

PlainTyNames == {"Double", "Float", "Int32", "Int64", "Uint32", "Uint64", "Sint32",
                 "Sint64", "Fixed32", "Fixed64", "Sfixed32", "Sfixed64", "Bool",
                 "String", "Bytes"}

Ty(name) == [name |-> name, path |-> <<>>]

Enumeration(path) == [name |-> "Enumeration", path |-> path]

is_numeric(t) == t.name \notin {"String", "Bytes"}

------------------------------------------------------------------------------
(* DefaultValue: [v, neg, text, b].  v is the variant; for the integer and *)
(* float variants neg/text are sign and magnitude, for String and Bytes    *)
(* text is the value, for Enumeration and Path text is the token text.     *)

DV(v, neg, text, b) == [v |-> v, neg |-> neg, text |-> text, b |-> b]

DVInt(v, n) == DV(v, n.neg, n.mag, FALSE)

NoDV == DV("None", FALSE, <<>>, FALSE)

\* Outcome of from_lit: Ok(val), Err(err) or a panic; depth counts the
\* nested from_lit calls made below this one.
Ok(val) == [ok |-> "Ok", val |-> val, err |-> "", depth |-> 0]

Err(e) == [ok |-> "Err", val |-> NoDV, err |-> e, depth |-> 0]

Panic(e) == [ok |-> "Panic", val |-> NoDV, err |-> e, depth |-> 0]

InvalidDefault == "invalid default value"

S_i32 == <<"i", "3", "2">>
S_i64 == <<"i", "6", "4">>
S_u32 == <<"u", "3", "2">>
S_u64 == <<"u", "6", "4">>
S_f32 == <<"f", "3", "2">>
S_f64 == <<"f", "6", "4">>

F32_INFINITY == <<"::", "core", "::", "f32", "::", "INFINITY">>
F32_NEG_INFINITY == <<"::", "core", "::", "f32", "::", "NEG_INFINITY">>
F32_NAN == <<"::", "core", "::", "f32", "::", "NAN">>
F64_INFINITY == <<"::", "core", "::", "f64", "::", "INFINITY">>
F64_NEG_INFINITY == <<"::", "core", "::", "f64", "::", "NEG_INFINITY">>
F64_NAN == <<"::", "core", "::", "f64", "::", "NAN">>

T_inf == <<"i", "n", "f">>
T_neg_inf == <<"-", "i", "n", "f">>
T_nan == <<"n", "a", "n">>

empty_or_is(expected, actual) == expected = actual \/ actual = <<>>

is_i32(t) == t.name \in {"Int32", "Sint32", "Sfixed32"}

is_i64(t) == t.name \in {"Int64", "Sint64", "Sfixed64"}

is_u32(t) == t.name \in {"Uint32", "Fixed32"}

is_u64(t) == t.name \in {"Uint64", "Fixed64"}

\* The storage type of an integer scalar type ("" for the other types), its
\* literal suffix and its DefaultValue variant.
IntStorage(t) ==
    IF is_i32(t) THEN "i32"
    ELSE IF is_i64(t) THEN "i64"
    ELSE IF is_u32(t) THEN "u32"
    ELSE IF is_u64(t) THEN "u64"
    ELSE ""

SuffixOf(w) ==
    IF w = "i32" THEN S_i32
    ELSE IF w = "i64" THEN S_i64
    ELSE IF w = "u32" THEN S_u32
    ELSE S_u64

\* Variant: the unsigned 32-bit arm builds the signed variant.
VariantOf_SignedU32(w) ==
    IF w \in {"i32", "u32"} THEN "I32" ELSE IF w = "i64" THEN "I64" ELSE "U64"

VariantOf(w) ==
    IF w = "i32" THEN "I32"
    ELSE IF w = "i64" THEN "I64"
    ELSE IF w = "u32" THEN "U32"
    ELSE "U64"

\* Variant: the digits are parsed in the storage type itself, not in the
\* next wider one.
WideOf_Same(w) == w

\* The type a negative literal is parsed into before it is negated.
WideOf(w) == IF w = "i32" THEN "i64" ELSE "i128"

ParsedDefault(p, v) == IF p.ok THEN Ok(DVInt(v, p.n)) ELSE Err("base10_parse")

\* DefaultValue::<v>(lit.base10_parse()?) for the integer storage type w
IntDefault(l, w) == ParsedDefault(ParseInt(l.text, w), VariantOf(w))

\* DefaultValue::<v>(lit.base10_parse()?) for f32 / f64: every digit string
\* of an integer or float literal parses; negate flips the sign.
FloatDefault(l, v, negate) ==
    IF Len(l.text) > 0 /\ l.text[1] = "-"
    THEN Ok(DV(v, ~negate, Tail(l.text), FALSE))
    ELSE Ok(DV(v, negate, l.text, FALSE))

Narrowed(c, v) == IF c.ok THEN Ok(DVInt(v, c.n)) ELSE Err("try_from")

Negated(ng, w, oc) ==
    IF ng.ovf /\ oc THEN Panic("attempt to negate with overflow")
    ELSE Narrowed(TryFrom(ng.n, w), VariantOf(w))

NegatedParse(p, w, oc) ==
    IF ~p.ok THEN Err("base10_parse") ELSE Negated(Negate(p.n, WideOf(w)), w, oc)

\* let value: <wide> = -lit.base10_parse()?;
\* return Ok(<w>::try_from(value).map(DefaultValue::<v>)?);
\* The negation of the minimum of <wide> overflows: a panic with overflow
\* checks, the minimum itself without.
NegIntDefault(l, w, oc) == NegatedParse(ParseInt(l.text, WideOf(w)), w, oc)

Return(r) == [ret |-> TRUE, r |-> r]

FallThrough == [ret |-> FALSE, r |-> Err("")]

\* The `match lit` on the literal l that follows the '-'.
NegativeArms(t, l, oc) ==
    IF l.k = "Int" /\ IntStorage(t) \in {"i32", "i64"}
            /\ empty_or_is(SuffixOf(IntStorage(t)), l.suffix)
        THEN Return(NegIntDefault(l, IntStorage(t), oc))
    ELSE IF l.k = "Float" /\ t.name = "Float" /\ empty_or_is(S_f32, l.suffix)
        THEN Return(FloatDefault(l, "F32", TRUE))
    ELSE IF l.k = "Float" /\ t.name = "Double" /\ empty_or_is(S_f64, l.suffix)
        THEN Return(FloatDefault(l, "F64", TRUE))
    ELSE IF l.k = "Int" /\ t.name = "Float" /\ l.suffix = <<>>
        THEN Return(FloatDefault(l, "F32", TRUE))
    ELSE IF l.k = "Int" /\ t.name = "Double" /\ l.suffix = <<>>
        THEN Return(FloatDefault(l, "F64", TRUE))
    ELSE FallThrough

NegativeParsed(t, p, oc) == IF p.ok THEN NegativeArms(t, p.lit, oc) ELSE FallThrough

\* The `if let Some(Ok(lit)) = value.strip_prefix('-').map(parse_str)` block:
\* Return(outcome) when it returns, FallThrough otherwise.
NegativeLiteral(t, value, oc) ==
    IF Len(value) > 0 /\ value[1] = "-"
    THEN NegativeParsed(t, parse_str_Lit(Tail(value)), oc)
    ELSE FallThrough

PathDefault(p) == Return(Ok(DV("Path", FALSE, p, FALSE)))

\* Variant: the special values of both widths name the f64 constants.
SpecialFloat_F64Only(t, value) ==
    IF t.name \in {"Float", "Double"} THEN
        IF value = T_inf THEN PathDefault(F64_INFINITY)
        ELSE IF value = T_neg_inf THEN PathDefault(F64_NEG_INFINITY)
        ELSE IF value = T_nan THEN PathDefault(F64_NAN)
        ELSE FallThrough
    ELSE FallThrough

\* The special floating point values of a Float / Double field.
SpecialFloat(t, value) ==
    IF t.name = "Float" THEN
        IF value = T_inf THEN PathDefault(F32_INFINITY)
        ELSE IF value = T_neg_inf THEN PathDefault(F32_NEG_INFINITY)
        ELSE IF value = T_nan THEN PathDefault(F32_NAN)
        ELSE FallThrough
    ELSE IF t.name = "Double" THEN
        IF value = T_inf THEN PathDefault(F64_INFINITY)
        ELSE IF value = T_neg_inf THEN PathDefault(F64_NEG_INFINITY)
        ELSE IF value = T_nan THEN PathDefault(F64_NAN)
        ELSE FallThrough
    ELSE FallThrough

Deeper(r) == [r EXCEPT !.depth = r.depth + 1]

RECURSIVE from_lit(_, _, _)

\* Variant: whatever literal the text parses to restarts from_lit.
Reparsed_AnyLiteral(t, p, oc) ==
    IF p.ok THEN Deeper(from_lit(t, p.lit, oc))
    ELSE Err(InvalidDefault)

\* The end of the string arm: the text is parsed as a literal again; a
\* literal that is not a string restarts from_lit, anything else is invalid.
Reparsed(t, p, oc) ==
    IF p.ok /\ p.lit.k # "Str" THEN Deeper(from_lit(t, p.lit, oc))
    ELSE Err(InvalidDefault)

AfterNegative(t, value, ng, oc) ==
    IF ng.ret THEN ng.r ELSE Reparsed(t, parse_str_Lit(value), oc)

AfterSpecial(t, value, sp, oc) ==
    IF sp.ret THEN sp.r ELSE AfterNegative(t, value, NegativeLiteral(t, value, oc), oc)

\* The `Lit::Str(ref lit) =>` arm on the trimmed value.
StrDefault(t, value, oc) ==
    IF t.name = "Enumeration" THEN
        IF IsIdent(value)
        THEN Ok(DV("Enumeration", FALSE, t.path \o <<":", ":">> \o value, FALSE))
        ELSE Panic("Ident::new")
    ELSE AfterSpecial(t, value, SpecialFloat(t, value), oc)

\* DefaultValue::from_lit
from_lit(t, l, oc) ==
    IF l.k = "Int" /\ IntStorage(t) # "" /\ empty_or_is(SuffixOf(IntStorage(t)), l.suffix)
        THEN IntDefault(l, IntStorage(t))
    ELSE IF l.k = "Float" /\ t.name = "Float" /\ empty_or_is(S_f32, l.suffix)
        THEN FloatDefault(l, "F32", FALSE)
    ELSE IF l.k = "Int" /\ t.name = "Float" THEN FloatDefault(l, "F32", FALSE)
    ELSE IF l.k = "Float" /\ t.name = "Double" /\ empty_or_is(S_f64, l.suffix)
        THEN FloatDefault(l, "F64", FALSE)
    ELSE IF l.k = "Int" /\ t.name = "Double" THEN FloatDefault(l, "F64", FALSE)
    ELSE IF l.k = "Bool" /\ t.name = "Bool" THEN Ok(DV("Bool", FALSE, <<>>, l.b))
    ELSE IF l.k = "Str" /\ t.name = "String" THEN Ok(DV("String", FALSE, l.text, FALSE))
    ELSE IF l.k = "ByteStr" /\ t.name = "Bytes" THEN Ok(DV("Bytes", FALSE, l.text, FALSE))
    ELSE IF l.k = "Str" THEN StrDefault(t, Trim(l.text), oc)
    ELSE Err(InvalidDefault)

\* DefaultValue::new
new(t) ==
    IF t.name = "Float" THEN DV("F32", FALSE, <<"0", ".", "0">>, FALSE)
    ELSE IF t.name = "Double" THEN DV("F64", FALSE, <<"0", ".", "0">>, FALSE)
    ELSE IF is_i32(t) THEN DV("I32", FALSE, <<"0">>, FALSE)
    ELSE IF is_i64(t) THEN DV("I64", FALSE, <<"0">>, FALSE)
    ELSE IF is_u32(t) THEN DV("U32", FALSE, <<"0">>, FALSE)
    ELSE IF is_u64(t) THEN DV("U64", FALSE, <<"0">>, FALSE)
    ELSE IF t.name = "Bool" THEN DV("Bool", FALSE, <<>>, FALSE)
    ELSE IF t.name = "String" THEN DV("String", FALSE, <<>>, FALSE)
    ELSE IF t.name = "Bytes" THEN DV("Bytes", FALSE, <<>>, FALSE)
    ELSE DV("Enumeration", FALSE,
            t.path \o <<":", ":", "d", "e", "f", "a", "u", "l", "t", "(", ")">>, FALSE)

------------------------------------------------------------------------------
(* syn::Meta: [form, name, lit, nested].  form is "Path" (a bare word),     *)
(* "NameValue" (name = lit) or "List" (name(nested...)); a nested item is   *)
(* [path, name]: a bare word (path TRUE) or something else.                *)

MetaPath(name) == [form |-> "Path", name |-> name, lit |-> NoLit, nested |-> <<>>]

MetaNameValue(name, l) == [form |-> "NameValue", name |-> name, lit |-> l, nested |-> <<>>]

MetaList(name, nested) == [form |-> "List", name |-> name, lit |-> NoLit, nested |-> nested]

\* Option<T> as [some, v]
Some(v) == [some |-> TRUE, v |-> v]

NoneTy == [some |-> FALSE, v |-> Ty("None")]

NoneBool == [some |-> FALSE, v |-> FALSE]

NoneTag == [some |-> FALSE, v |-> <<>>]

NoneLabel == [some |-> FALSE, v |-> "None"]

NoneLit == [some |-> FALSE, v |-> NoLit]

\* Result<Option<T>, Error> of the attribute recognisers
AttrOk(opt) == [err |-> "", opt |-> opt]

AttrErr(e, none) == [err |-> e, opt |-> none]

PathWord(n) ==
    IF n = "float" THEN "Float"
    ELSE IF n = "double" THEN "Double"
    ELSE IF n = "int32" THEN "Int32"
    ELSE IF n = "int64" THEN "Int64"
    ELSE IF n = "uint32" THEN "Uint32"
    ELSE IF n = "uint64" THEN "Uint64"
    ELSE IF n = "sint32" THEN "Sint32"
    ELSE IF n = "sint64" THEN "Sint64"
    ELSE IF n = "fixed32" THEN "Fixed32"
    ELSE IF n = "fixed64" THEN "Fixed64"
    ELSE IF n = "sfixed32" THEN "Sfixed32"
    ELSE IF n = "sfixed64" THEN "Sfixed64"
    ELSE IF n = "bool" THEN "Bool"
    ELSE IF n = "string" THEN "String"
    ELSE IF n = "bytes" THEN "Bytes"
    ELSE "None"

\* syn::parse_str::<Path> succeeds on identifiers separated by "::"
RECURSIVE IsPathText(_)
IsPathText(s) ==
    LET n == SpanLen(s, Letters \cup Digits)
    IN  /\ n > 0
        /\ s[1] \in Letters
        /\ \/ n = Len(s)
           \/ /\ Len(s) >= n + 3
              /\ s[n + 1] = ":" /\ s[n + 2] = ":"
              /\ IsPathText(Drop(s, n + 2))

\* Ty::from_attr
Ty_from_attr(attr) ==
    IF attr.form = "Path" /\ PathWord(attr.name) # "None"
        THEN AttrOk(Some(Ty(PathWord(attr.name))))
    ELSE IF attr.form = "NameValue" /\ attr.lit.k = "Str" /\ attr.name = "enumeration" THEN
        IF IsPathText(Trim(attr.lit.text))
        THEN AttrOk(Some(Enumeration(Trim(attr.lit.text))))
        ELSE AttrErr("parse_str::<Path>", NoneTy)
    ELSE IF attr.form = "List" /\ attr.name = "enumeration" THEN
        IF Len(attr.nested) = 1 THEN
            IF attr.nested[1].path
            THEN AttrOk(Some(Enumeration(attr.nested[1].name)))
            ELSE AttrErr("invalid enumeration attribute: item must be an identifier", NoneTy)
        ELSE AttrErr("invalid enumeration attribute: only a single identifier is supported",
                     NoneTy)
    ELSE AttrOk(NoneTy)

\* crate::field::bool_attr: a bare word is true; a value must be a boolean.
bool_attr(key, attr) ==
    IF attr.name # key THEN AttrOk(NoneBool)
    ELSE IF attr.form = "Path" THEN AttrOk(Some(TRUE))
    ELSE IF attr.form = "NameValue" /\ attr.lit.k = "Bool" THEN AttrOk(Some(attr.lit.b))
    ELSE IF attr.form = "NameValue" /\ attr.lit.k = "Str"
            /\ attr.lit.text = <<"t", "r", "u", "e">> THEN AttrOk(Some(TRUE))
    ELSE IF attr.form = "NameValue" /\ attr.lit.k = "Str"
            /\ attr.lit.text = <<"f", "a", "l", "s", "e">> THEN AttrOk(Some(FALSE))
    ELSE AttrErr("invalid packed attribute", NoneBool)

ParsedTag(p) ==
    IF p.ok THEN AttrOk(Some(p.n.mag)) ELSE AttrErr("invalid tag attribute", NoneTag)

\* crate::field::tag_attr: tag = <u32>, as an integer or in a string.
tag_attr(attr) ==
    IF attr.name # "tag" THEN AttrOk(NoneTag)
    ELSE IF attr.form = "NameValue" /\ attr.lit.k \in {"Str", "Int"}
        THEN ParsedTag(ParseInt(attr.lit.text, "u32"))
    ELSE AttrErr("invalid tag attribute", NoneTag)

\* crate::field::Label::from_attr
Label_from_attr(attr) ==
    IF attr.form = "Path" /\ attr.name = "optional" THEN Some("Optional")
    ELSE IF attr.form = "Path" /\ attr.name = "required" THEN Some("Required")
    ELSE IF attr.form = "Path" /\ attr.name = "repeated" THEN Some("Repeated")
    ELSE NoneLabel

\* DefaultValue::from_attr
DefaultValue_from_attr(attr) ==
    IF attr.name # "default" THEN AttrOk(NoneLit)
    ELSE IF attr.form = "NameValue" THEN AttrOk(Some(attr.lit))
    ELSE AttrErr("invalid default value attribute", NoneLit)

\* crate::field::set_option: an option already set is an error.
set_option(option, value, message) ==
    IF option.some THEN [err |-> message, opt |-> option]
    ELSE [err |-> "", opt |-> Some(value)]

\* The locals of Field::new while the attribute loop runs.
NewLocals ==
    [ty |-> NoneTy, label |-> NoneLabel, packed |-> NoneBool, default |-> NoneLit,
     tag |-> NoneTag, unknown_attrs |-> <<>>, err |-> ""]

\* `set_option(&mut <field>, value, message)?` on the locals
SetLocal(st, field, r) == [st EXCEPT ![field] = r.opt, !.err = r.err]

Fail(st, e) == [st EXCEPT !.err = e]

\* One iteration of `for attr in attrs`: the first recogniser that accepts
\* the attribute sets its option; an error of a recogniser or of set_option
\* ends the loop.
TryDefault(st, attr, d) ==
    IF d.err # "" THEN Fail(st, d.err)
    ELSE IF d.opt.some
        THEN SetLocal(st, "default",
                      set_option(st.default, d.opt.v, "duplicate default attributes"))
    ELSE [st EXCEPT !.unknown_attrs = Append(@, attr)]

\* Variant: a later label replaces an earlier one.
TryLabel_LastWins(st, attr, l) ==
    IF l.some
    THEN [st EXCEPT !.label = l]
    ELSE TryDefault(st, attr, DefaultValue_from_attr(attr))

TryLabel(st, attr, l) ==
    IF l.some
    THEN SetLocal(st, "label", set_option(st.label, l.v, "duplicate label attributes"))
    ELSE TryDefault(st, attr, DefaultValue_from_attr(attr))

TryTag(st, attr, g) ==
    IF g.err # "" THEN Fail(st, g.err)
    ELSE IF g.opt.some
        THEN SetLocal(st, "tag", set_option(st.tag, g.opt.v, "duplicate tag attributes"))
    ELSE TryLabel(st, attr, Label_from_attr(attr))

TryPacked(st, attr, p) ==
    IF p.err # "" THEN Fail(st, p.err)
    ELSE IF p.opt.some
        THEN SetLocal(st, "packed",
                      set_option(st.packed, p.opt.v, "duplicate packed attributes"))
    ELSE TryTag(st, attr, tag_attr(attr))

TryType(st, attr, t) ==
    IF t.err # "" THEN Fail(st, t.err)
    ELSE IF t.opt.some
        THEN SetLocal(st, "ty", set_option(st.ty, t.opt.v, "duplicate type attributes"))
    ELSE TryPacked(st, attr, bool_attr("packed", attr))

ClassifyAttr(st, attr) == TryType(st, attr, Ty_from_attr(attr))

RECURSIVE ClassifyAll(_, _)
ClassifyAll(st, as) ==
    IF st.err # "" \/ as = <<>> THEN st
    ELSE ClassifyAll(ClassifyAttr(st, Head(as)), Tail(as))

\* Field: [ty, kind, default, tag]; default is the kind's payload (NoDV for
\* Repeated and Packed).
MkField(t, kind, default, tag) == [ty |-> t, kind |-> kind, default |-> default, tag |-> tag]

NoField == MkField(Ty("None"), "None", NoDV, <<>>)

\* Result<Option<Field>, Error>: "Some", "None", "Err", or a panic.
FieldOk(f) == [ok |-> "Some", field |-> f, err |-> ""]

FieldNone == [ok |-> "None", field |-> NoField, err |-> ""]

FieldErr(e) == [ok |-> "Err", field |-> NoField, err |-> e]

FieldPanic(e) == [ok |-> "Panic", field |-> NoField, err |-> e]

E_PackedRepeated == "packed attribute may only be applied to repeated fields"

E_PackedNumeric == "packed attribute may only be applied to numeric types"

E_RepeatedDefault == "repeated fields may not have a default value"

\* Variant: a repeated field is packed by its type alone, whatever the
\* packed flag says.
ResolveKind_ByTypeOnly(t, label, packed, has_default, default, tag) ==
    IF packed = Some(TRUE) /\ label \in {NoneLabel, Some("Optional"), Some("Required")}
        THEN FieldErr(E_PackedRepeated)
    ELSE IF label = Some("Repeated") /\ packed = Some(TRUE) /\ ~is_numeric(t)
        THEN FieldErr(E_PackedNumeric)
    ELSE IF label = Some("Repeated") /\ has_default
        THEN FieldErr(E_RepeatedDefault)
    ELSE IF label = NoneLabel THEN FieldOk(MkField(t, "Plain", default, tag))
    ELSE IF label = Some("Optional") THEN FieldOk(MkField(t, "Optional", default, tag))
    ELSE IF label = Some("Required") THEN FieldOk(MkField(t, "Required", default, tag))
    ELSE IF is_numeric(t) THEN FieldOk(MkField(t, "Packed", NoDV, tag))
    ELSE FieldOk(MkField(t, "Repeated", NoDV, tag))

\* Variant: packed = true is only refused on a field without label.
ResolveKind_PackedOnLabelled(t, label, packed, has_default, default, tag) ==
    IF packed = Some(TRUE) /\ label = NoneLabel
        THEN FieldErr(E_PackedRepeated)
    ELSE IF label = Some("Repeated") /\ packed = Some(TRUE) /\ ~is_numeric(t)
        THEN FieldErr(E_PackedNumeric)
    ELSE IF label = Some("Repeated") /\ has_default
        THEN FieldErr(E_RepeatedDefault)
    ELSE IF label = NoneLabel THEN FieldOk(MkField(t, "Plain", default, tag))
    ELSE IF label = Some("Optional") THEN FieldOk(MkField(t, "Optional", default, tag))
    ELSE IF label = Some("Required") THEN FieldOk(MkField(t, "Required", default, tag))
    ELSE IF (IF packed.some THEN packed.v ELSE is_numeric(t))
        THEN FieldOk(MkField(t, "Packed", NoDV, tag))
    ELSE FieldOk(MkField(t, "Repeated", NoDV, tag))

\* Variant: the numeric check of a packed repeated field is left out.
ResolveKind_NoNumericCheck(t, label, packed, has_default, default, tag) ==
    IF packed = Some(TRUE) /\ label \in {NoneLabel, Some("Optional"), Some("Required")}
        THEN FieldErr(E_PackedRepeated)
    ELSE IF label = Some("Repeated") /\ has_default
        THEN FieldErr(E_RepeatedDefault)
    ELSE IF label = NoneLabel THEN FieldOk(MkField(t, "Plain", default, tag))
    ELSE IF label = Some("Optional") THEN FieldOk(MkField(t, "Optional", default, tag))
    ELSE IF label = Some("Required") THEN FieldOk(MkField(t, "Required", default, tag))
    ELSE IF (IF packed.some THEN packed.v ELSE is_numeric(t))
        THEN FieldOk(MkField(t, "Packed", NoDV, tag))
    ELSE FieldOk(MkField(t, "Repeated", NoDV, tag))

\* Variant: the default check of a repeated field is left out.
ResolveKind_NoDefaultCheck(t, label, packed, has_default, default, tag) ==
    IF packed = Some(TRUE) /\ label \in {NoneLabel, Some("Optional"), Some("Required")}
        THEN FieldErr(E_PackedRepeated)
    ELSE IF label = Some("Repeated") /\ packed = Some(TRUE) /\ ~is_numeric(t)
        THEN FieldErr(E_PackedNumeric)
    ELSE IF label = NoneLabel THEN FieldOk(MkField(t, "Plain", default, tag))
    ELSE IF label = Some("Optional") THEN FieldOk(MkField(t, "Optional", default, tag))
    ELSE IF label = Some("Required") THEN FieldOk(MkField(t, "Required", default, tag))
    ELSE IF (IF packed.some THEN packed.v ELSE is_numeric(t))
        THEN FieldOk(MkField(t, "Packed", NoDV, tag))
    ELSE FieldOk(MkField(t, "Repeated", NoDV, tag))

\* The `match (label, packed, has_default)` of Field::new, arm by arm.
ResolveKind(t, label, packed, has_default, default, tag) ==
    IF packed = Some(TRUE) /\ label \in {NoneLabel, Some("Optional"), Some("Required")}
        THEN FieldErr(E_PackedRepeated)
    ELSE IF label = Some("Repeated") /\ packed = Some(TRUE) /\ ~is_numeric(t)
        THEN FieldErr(E_PackedNumeric)
    ELSE IF label = Some("Repeated") /\ has_default
        THEN FieldErr(E_RepeatedDefault)
    ELSE IF label = NoneLabel THEN FieldOk(MkField(t, "Plain", default, tag))
    ELSE IF label = Some("Optional") THEN FieldOk(MkField(t, "Optional", default, tag))
    ELSE IF label = Some("Required") THEN FieldOk(MkField(t, "Required", default, tag))
    ELSE IF (IF packed.some THEN packed.v ELSE is_numeric(t))
        THEN FieldOk(MkField(t, "Packed", NoDV, tag))
    ELSE FieldOk(MkField(t, "Repeated", NoDV, tag))

\* let default = default.map_or_else(|| Ok(new(&ty)), |lit| from_lit(&ty, lit))
ResolveDefault(t, default, oc) ==
    IF default.some THEN from_lit(t, default.v, oc) ELSE Ok(new(t))

\* Field::new after the default is resolved
WithDefault(st, tag, d) ==
    IF d.ok = "Panic" THEN FieldPanic(d.err)
    ELSE IF d.ok = "Err" THEN FieldErr(d.err)
    ELSE ResolveKind(st.ty.v, st.label, st.packed, st.default.some, d.val, tag)

\* Field::new after the tag is chosen: tag.or(inferred_tag)
WithTag(st, tag, oc) ==
    IF ~tag.some THEN FieldErr("missing tag attribute")
    ELSE WithDefault(st, tag.v, ResolveDefault(st.ty.v, st.default, oc))

\* Variant: the unknown attributes are reported before the type is looked at.
Classified_UnknownFirst(st, inferred, oc) ==
    IF st.err # "" THEN FieldErr(st.err)
    ELSE IF Len(st.unknown_attrs) = 1 THEN FieldErr("unknown attribute")
    ELSE IF Len(st.unknown_attrs) > 1 THEN FieldErr("unknown attributes")
    ELSE IF ~st.ty.some THEN FieldNone
    ELSE WithTag(st, IF st.tag.some THEN st.tag ELSE inferred, oc)

\* Field::new after the attribute loop
Classified(st, inferred, oc) ==
    IF st.err # "" THEN FieldErr(st.err)
    ELSE IF ~st.ty.some THEN FieldNone
    ELSE IF Len(st.unknown_attrs) = 1 THEN FieldErr("unknown attribute")
    ELSE IF Len(st.unknown_attrs) > 1 THEN FieldErr("unknown attributes")
    ELSE WithTag(st, IF st.tag.some THEN st.tag ELSE inferred, oc)

\* Field::new
Field_new(as, inferred, oc) == Classified(ClassifyAll(NewLocals, as), inferred, oc)

\* Variant: an optional field is taken for a oneof variant as well.
OneofOf_OptionalToo(r) ==
    IF r.ok # "Some" THEN r
    ELSE IF r.field.kind \in {"Plain", "Optional"}
        THEN FieldOk([r.field EXCEPT !.kind = "Required"])
    ELSE IF r.field.kind = "Required"
        THEN FieldErr("invalid required attribute on oneof field")
    ELSE FieldErr("invalid repeated attribute on oneof field")

\* The `match field.kind` of Field::new_oneof
OneofOf(r) ==
    IF r.ok # "Some" THEN r
    ELSE IF r.field.kind = "Plain"
        THEN FieldOk([r.field EXCEPT !.kind = "Required"])
    ELSE IF r.field.kind = "Optional"
        THEN FieldErr("invalid optional attribute on oneof field")
    ELSE IF r.field.kind = "Required"
        THEN FieldErr("invalid required attribute on oneof field")
    ELSE FieldErr("invalid repeated attribute on oneof field")

\* Field::new_oneof
Field_new_oneof(as, oc) == OneofOf(Field_new(as, NoneTag, oc))

------------------------------------------------------------------------------
(* The emitted fragments.  Tokens of a default: [v, neg, text, b, cast],   *)
(* the value as a literal and the cast that follows it ("" for none).      *)

Tokens(d, cast) == [v |-> d.v, neg |-> d.neg, text |-> d.text, b |-> d.b, cast |-> cast]

NoTokens == Tokens(NoDV, "")

\* <DefaultValue as ToTokens>::to_tokens: a byte string is cast to a slice.
to_tokens(d) == IF d.v = "Bytes" THEN Tokens(d, "as &[u8]") ELSE Tokens(d, "")

\* DefaultValue::typed
typed(d) ==
    IF d.v = "Enumeration" THEN [to_tokens(d) EXCEPT !.cast = "as i32"] ELSE to_tokens(d)

\* DefaultValue::typed_for_cmp: a string default becomes its bytes.
typed_for_cmp(d) ==
    IF d.v = "Enumeration" THEN [to_tokens(d) EXCEPT !.cast = "as i32"]
    ELSE IF d.v = "String" THEN to_tokens(DV("Bytes", FALSE, d.text, FALSE))
    ELSE to_tokens(d)

\* A fragment: `if <guard> { <call>(&ident, tag) } else { <else> }`; guard is
\* "is_default" (`!ident.is_default(default)`), "ne" (`ident != default`) or
\* "none" (the call alone); orelse is "0" or "" (no else branch).
Fragment(guard, default, call, ident, tag, orelse) ==
    [guard |-> guard, default |-> default, call |-> call, ident |-> ident,
     tag |-> tag, orelse |-> orelse]

NoFragment == Fragment("", NoTokens, "", "", <<>>, "")

\* Field::encode
encode(f, ident) ==
    IF f.kind = "Plain" THEN
        IF f.ty.name \in {"String", "Bytes"}
        THEN Fragment("is_default", typed_for_cmp(f.default), "serialize", ident, f.tag, "")
        ELSE Fragment("ne", typed(f.default), "serialize", ident, f.tag, "")
    ELSE IF f.kind = "Optional"
        THEN Fragment("none", NoTokens, "serialize", ident, f.tag, "")
    ELSE Fragment("none", NoTokens, "serialize", ident, f.tag, "")

\* Variant: the length of a Plain field is guarded by != on the typed
\* default for every type, strings and bytes included.
encoded_len_TypedOnly(f, ident) ==
    IF f.kind = "Plain"
    THEN Fragment("ne", typed(f.default), "field_len", ident, f.tag, "0")
    ELSE Fragment("none", NoTokens, "field_len", ident, f.tag, "")

\* Field::encoded_len
encoded_len(f, ident) ==
    IF f.kind = "Plain" THEN
        IF f.ty.name \in {"String", "Bytes"}
        THEN Fragment("is_default", typed_for_cmp(f.default), "field_len", ident, f.tag, "0")
        ELSE Fragment("ne", typed(f.default), "field_len", ident, f.tag, "0")
    ELSE Fragment("none", NoTokens, "field_len", ident, f.tag, "")

------------------------------------------------------------------------------
(* The client generator.  A Method is [name, proto_name, input_type,       *)
(* output_type]; a Service is [name, proto_name, package, methods].  All   *)
(* names are text.                                                         *)

Method(name, proto_name, input_type, output_type) ==
    [name |-> name, proto_name |-> proto_name, input_type |-> input_type,
     output_type |-> output_type]

Service(name, proto_name, package, ms) ==
    [name |-> name, proto_name |-> proto_name, package |-> package, methods |-> ms]

NoService == Service(<<>>, <<>>, <<>>, <<>>)

\* quote::format_ident!: the formatted text must be an identifier, or the
\* macro panics.
format_ident(text) == [ok |-> IsIdent(text), ident |-> text]

\* Variant: the path is built from the service's Rust name.
gen_method_def_RustName(method, svc) ==
    LET def_ident == format_ident(method.proto_name \o <<"D", "e", "f">>)
        path == <<"/">> \o svc.package \o <<".">> \o svc.name
                    \o <<"/">> \o method.proto_name
        input_type == format_ident(method.input_type)
        output_type == format_ident(method.output_type)
    IN  [ok |-> def_ident.ok /\ input_type.ok /\ output_type.ok,
         def_ident |-> def_ident.ident,
         NAME |-> method.proto_name,
         PATH |-> path,
         Input |-> input_type.ident,
         Output |-> output_type.ident]

\* gen_method_def: the MethodDef implementation of one method.
gen_method_def(method, svc) ==
    LET def_ident == format_ident(method.proto_name \o <<"D", "e", "f">>)
        path == <<"/">> \o svc.package \o <<".">> \o svc.proto_name
                    \o <<"/">> \o method.proto_name
        input_type == format_ident(method.input_type)
        output_type == format_ident(method.output_type)
    IN  [ok |-> def_ident.ok /\ input_type.ok /\ output_type.ok,
         def_ident |-> def_ident.ident,
         NAME |-> method.proto_name,
         PATH |-> path,
         Input |-> input_type.ident,
         Output |-> output_type.ident]

\* gen_method: the client method of one method.
gen_method(method) ==
    LET method_ident == format_ident(method.name)
        def_ident == format_ident(method.proto_name \o <<"D", "e", "f">>)
        input_type == format_ident(method.input_type)
        output_type == format_ident(method.output_type)
    IN  [ok |-> method_ident.ok /\ def_ident.ok /\ input_type.ok /\ output_type.ok,
         method_ident |-> method_ident.ident,
         def_ident |-> def_ident.ident,
         req |-> input_type.ident,
         Output |-> output_type.ident]

\* generate_client: the client module appended to the buffer.  snake_case
\* is kept symbolic: the module identifier is "<snake_case(name)>_client".
generate_client(svc) ==
    LET service_ident == format_ident(svc.name)
        ms == [i \in DOMAIN svc.methods |-> gen_method(svc.methods[i])]
        defs == [i \in DOMAIN svc.methods |-> gen_method_def(svc.methods[i], svc)]
    IN  [ok |-> /\ service_ident.ok
                /\ \A i \in DOMAIN ms : ms[i].ok
                /\ \A i \in DOMAIN defs : defs[i].ok,
         mod_ident |-> [snake_case_of |-> svc.name, suffix |-> "_client"],
         service_ident |-> service_ident.ident,
         m_defs |-> defs,
         methods |-> ms]

------------------------------------------------------------------------------
(* Inputs of the default-value resolver.                                   *)

\* How far past each integer boundary the drawn magnitudes go.
MaxDelta == 2

\* d + 1 on digit sequences
RECURSIVE Succ(_)
Succ(d) ==
    IF Len(d) = 0 THEN <<"1">>
    ELSE IF d[Len(d)] = "9" THEN Succ(SubSeq(d, 1, Len(d) - 1)) \o <<"0">>
    ELSE SubSeq(d, 1, Len(d) - 1) \o <<DigitSeq[DigitVal(d[Len(d)]) + 2]>>

RECURSIVE Plus(_, _)
Plus(d, n) == IF n = 0 THEN d ELSE Plus(Succ(d), n - 1)

Boundaries == {<<"0">>, I32_MAX, U32_MAX, I64_MAX, U64_MAX, I128_MAX}

Magnitudes == {Plus(b, n) : b \in Boundaries, n \in 0..MaxDelta} \cup {<<"0", "0", "7">>}

Suffixes == {<<>>, S_i32, S_i64, S_u32, S_u64, S_f32, S_f64, <<"u", "8">>}

FloatDigits == {<<"1", ".", "5">>, <<"0", ".", "0">>, <<"2", "e", "3">>}

Signs == {<<>>, <<"-">>, <<"-", "-">>, <<"-", " ">>}

Pads == {<<>>, <<" ">>}

\* Contents of string literals: numbers, with sign, suffix and padding, and
\* the texts that the string branch treats specially or rejects.
NumberTexts ==
    {pl \o sg \o m \o sf \o pr :
        pl \in Pads, sg \in Signs, m \in Magnitudes \cup FloatDigits,
        sf \in Suffixes, pr \in Pads}

OtherTexts ==
    {<<>>, <<" ">>, T_inf, T_neg_inf, T_nan, <<" ">> \o T_nan \o <<" ">>,
     <<"-">> \o T_nan, <<"I", "n", "f">>, <<"N", "A", "N">>,
     <<"t", "r", "u", "e">>, <<"f", "a", "l", "s", "e">>, <<"-", "t", "r", "u", "e">>,
     <<"\"", "x", "\"">>, <<"\"", "5", "\"">>, <<"-", "\"", "5", "\"">>,
     <<"b", "\"", "a", "b", "\"">>, <<"A">>, <<" ", "B", " ">>, <<"a", " ", "b">>,
     <<"a", "b">>, <<"5", " ", "5">>, <<"-">>, <<"5", ".">>, <<"_">>}

Lits ==
    {LitInt(m, sf) : m \in Magnitudes, sf \in Suffixes}
    \cup {LitFloat(d, sf) : d \in FloatDigits, sf \in Suffixes}
    \cup {LitBool(b) : b \in BOOLEAN}
    \cup {LitStr(c) : c \in NumberTexts \cup OtherTexts}
    \cup {LitByteStr(c) : c \in {<<>>, <<"a", "b">>, <<"5">>}}
    \cup {LitChar(<<"c">>)}

EnumPath == <<"E">>

Tys == {Ty(n) : n \in PlainTyNames} \cup {Enumeration(EnumPath)}

NoTy == Ty("None")

NoRes == Err("")

------------------------------------------------------------------------------
(* The default-value resolver as a state machine: an input is drawn, then  *)
(* from_lit or new is applied to it.                                       *)

\* The values of the variables of a pipeline that is not running.
IdleLit == ty = NoTy /\ lit = NoLit /\ dv = NoRes

IdleField ==
    /\ attrs = <<>> /\ inferred_tag = NoneTag /\ res = FieldNone
    /\ enc = NoFragment /\ elen = NoFragment

IdleGen == service = NoService /\ m_defs = <<>> /\ methods = <<>> /\ buf = <<>>

LitIdle == IdleField /\ IdleGen

InitLit ==
    /\ pc = "start"
    /\ ty \in Tys
    /\ lit \in Lits
    /\ overflow_checks \in BOOLEAN
    /\ dv = NoRes
    /\ LitIdle

FromLit ==
    /\ pc = "start"
    /\ pc' = "from_lit"
    /\ dv' = from_lit(ty, lit, overflow_checks)
    /\ UNCHANGED <<ty, lit, overflow_checks, attrs, inferred_tag, res, enc, elen,
                   service, m_defs, methods, buf>>

\* No default is declared: the literal plays no part.
DefaultNew ==
    /\ pc = "start"
    /\ pc' = "new"
    /\ lit' = NoLit
    /\ dv' = Ok(new(ty))
    /\ UNCHANGED <<ty, overflow_checks, attrs, inferred_tag, res, enc, elen,
                   service, m_defs, methods, buf>>

NextLit == FromLit \/ DefaultNew

SpecLit == InitLit /\ [][NextLit]_vars

------------------------------------------------------------------------------
(* Claims about the default-value resolver (checked under SpecLit).        *)

\* The literal is the string "-N", N a run of decimal digits.
IsMinusN(l) ==
    l.k = "Str" /\ Len(l.text) >= 2 /\ l.text[1] = "-" /\ IsDigits(Tail(l.text))

MagnitudeOf(l) == StripZeros(Tail(l.text))

\* The outcome is Ok with the integer variant v holding -N.
IsMinusNValue(r, v, l) ==
    /\ r.ok = "Ok"
    /\ r.val.v = v
    /\ r.val.text = MagnitudeOf(l)
    /\ r.val.neg = (MagnitudeOf(l) # <<"0">>)
    /\ r.val.b = FALSE

\* C5: a default given as the string "-N" resolves, for the signed 32-bit
\* types, to I32(-N) exactly when N <= 2^31 and, for the signed 64-bit types,
\* to I64(-N) exactly when N <= 2^63; otherwise from_lit returns an error: it
\* never panics on the negation and never yields a wrapped or truncated value.
C5_NegativeNeverOverflows ==
    (pc = "from_lit" /\ IsMinusN(lit)) =>
        /\ is_i32(ty) =>
            IF MagLeq(MagnitudeOf(lit), I32_MIN_MAG)
            THEN IsMinusNValue(dv, "I32", lit)
            ELSE dv.ok = "Err"
        /\ is_i64(ty) =>
            IF MagLeq(MagnitudeOf(lit), I64_MIN_MAG)
            THEN IsMinusNValue(dv, "I64", lit)
            ELSE dv.ok = "Err"

\* C5 witness: "-2147483648" has resolved to the minimum 32-bit value for an
\* int32 field.
C5_Witness ==
    /\ pc = "from_lit"
    /\ ty = Ty("Int32")
    /\ lit = LitStr(<<"-">> \o I32_MIN_MAG)
    /\ dv = Ok(DV("I32", TRUE, I32_MIN_MAG, FALSE))

SpecialTexts == {T_inf, T_neg_inf, T_nan}

\* C6: for a float and for a double field the strings "inf", "-inf" and "nan"
\* each resolve to a Path default naming a constant of the field's own width
\* (core::f32 for float, core::f64 for double); the three constants of a type
\* are pairwise distinct and none is a numeric (F32 / F64) default.
C6_SpecialFloats ==
    (pc = "from_lit" /\ ty.name \in {"Float", "Double"}
        /\ lit.k = "Str" /\ lit.text \in SpecialTexts) =>
        /\ dv.ok = "Ok"
        /\ dv.val.v = "Path"
        /\ dv.val.v \notin {"F32", "F64"}
        /\ Len(dv.val.text) = 6
        /\ dv.val.text[2] = "core"
        /\ dv.val.text[4] = (IF ty.name = "Float" THEN "f32" ELSE "f64")
        /\ dv.val.text[6] = (IF lit.text = T_inf THEN "INFINITY"
                             ELSE IF lit.text = T_neg_inf THEN "NEG_INFINITY"
                             ELSE "NAN")
        /\ \A other \in SpecialTexts \ {lit.text} :
              from_lit(ty, LitStr(other), overflow_checks).val # dv.val

\* C6 witness: "nan" has resolved to ::core::f64::NAN for a double field.
C6_Witness ==
    /\ pc = "from_lit"
    /\ ty = Ty("Double")
    /\ lit = LitStr(T_nan)
    /\ dv.ok = "Ok"
    /\ dv.val = DV("Path", FALSE, F64_NAN, FALSE)

\* The suffix a numeric literal may carry for a target type: that of the
\* type's storage type (none for bool, string, bytes and enumerations).
StorageSuffix(t) ==
    IF is_i32(t) THEN {S_i32}
    ELSE IF is_i64(t) THEN {S_i64}
    ELSE IF is_u32(t) THEN {S_u32}
    ELSE IF is_u64(t) THEN {S_u64}
    ELSE IF t.name = "Float" THEN {S_f32}
    ELSE IF t.name = "Double" THEN {S_f64}
    ELSE {}

\* The suffix of the numeric literal that l is (a plain literal) or holds
\* (a string "-..." whose text after the '-' is one numeric literal).
CarriedSuffix(l) ==
    IF l.k \in {"Int", "Float"} THEN l.suffix
    ELSE IF l.k = "Str" /\ Len(l.text) >= 2 /\ l.text[1] = "-"
            /\ parse_str_Lit(Tail(l.text)).ok
            /\ parse_str_Lit(Tail(l.text)).lit.k \in {"Int", "Float"}
        THEN parse_str_Lit(Tail(l.text)).lit.suffix
    ELSE <<>>

\* C10 (as claimed): a numeric literal, plain or given as a "-..." string,
\* whose type suffix is not the suffix of the target's storage type is never
\* accepted by from_lit.
C10_MismatchedSuffixRejected ==
    (pc = "from_lit" /\ CarriedSuffix(lit) # <<>>
        /\ CarriedSuffix(lit) \notin StorageSuffix(ty)) =>
        dv.ok # "Ok"

\* The text is one quoted string literal.
IsQuoted(t) ==
    /\ Len(t) >= 2
    /\ t[1] = "\"" /\ t[Len(t)] = "\""
    /\ \A i \in 2..(Len(t) - 1) : t[i] # "\""

\* from_lit has restarted only from a string literal, whose trimmed content
\* parses as a literal that is not a string.
RestartedFromString ==
    /\ lit.k = "Str"
    /\ parse_str_Lit(Trim(lit.text)).ok
    /\ parse_str_Lit(Trim(lit.text)).lit.k # "Str"

VariantsFor(t) ==
    IF t.name \in {"Int32", "Sint32", "Sfixed32"} THEN {"I32"}
    ELSE IF t.name \in {"Int64", "Sint64", "Sfixed64"} THEN {"I64"}
    ELSE IF t.name \in {"Uint32", "Fixed32"} THEN {"U32"}
    ELSE IF t.name \in {"Uint64", "Fixed64"} THEN {"U64"}
    ELSE IF t.name = "Float" THEN {"F32", "Path"}
    ELSE IF t.name = "Double" THEN {"F64", "Path"}
    ELSE IF t.name = "Bool" THEN {"Bool"}
    ELSE IF t.name = "String" THEN {"String"}
    ELSE IF t.name = "Bytes" THEN {"Bytes"}
    ELSE IF t.name = "Enumeration" THEN {"Enumeration"}
    ELSE {}

\* d is the zero, false, empty or enum-default value of its variant.
IsZeroValue(d, t) ==
    /\ ~d.neg /\ ~d.b
    /\ d.v # "Path"
    /\ IF d.v \in {"I32", "I64", "U32", "U64"} THEN d.text = <<"0">>
       ELSE IF d.v \in {"F32", "F64"} THEN d.text = <<"0", ".", "0">>
       ELSE IF d.v = "Enumeration"
           THEN d.text = t.path \o <<":", ":", "d", "e", "f", "a", "u", "l", "t", "(", ")">>
       ELSE d.text = <<>>

\* C13: every default that from_lit(T, lit) or new(T) returns has the variant
\* that matches T (I32, I64, U32, U64 for the integer types by storage, F32
\* or Path for float, F64 or Path for double, Bool, String, Bytes,
\* Enumeration), and new(T) is the zero, false, empty or enum-default value
\* of that variant.
C13_VariantMatchesType ==
    /\ (pc \in {"from_lit", "new"} /\ dv.ok = "Ok") => dv.val.v \in VariantsFor(ty)
    /\ pc = "new" =>
          dv.ok = "Ok" /\ dv.val.v \in VariantsFor(ty) /\ IsZeroValue(dv.val, ty)

\* C13 witness: the largest 32-bit unsigned integer, given as an integer
\* literal, has resolved to a U32 default for a fixed32 field.
C13_Witness ==
    /\ pc = "from_lit"
    /\ ty = Ty("Fixed32")
    /\ lit = LitInt(U32_MAX, <<>>)
    /\ dv = Ok(DV("U32", FALSE, U32_MAX, FALSE))

------------------------------------------------------------------------------
(* The field resolver as a state machine: an attribute list is drawn, then *)
(* Field::new or Field::new_oneof is applied, then the fragments of the    *)
(* resolved field are emitted.                                             *)

\* Longest attribute list drawn.
MaxAttrs == 4

T_true == <<"t", "r", "u", "e">>

T_false == <<"f", "a", "l", "s", "e">>

AttrPool ==
    {MetaPath("int32"), MetaPath("string"), MetaPath("bytes"),
     MetaNameValue("enumeration", LitStr(EnumPath)),
     MetaPath("optional"), MetaPath("required"), MetaPath("repeated"),
     MetaPath("packed"), MetaNameValue("packed", LitStr(T_false)),
     MetaNameValue("tag", LitStr(<<"1">>)),
     MetaNameValue("default", LitStr(<<"5">>)),
     MetaNameValue("default", LitStr(<<"A">>)),
     MetaPath("foo")}

AttrLists == UNION {[1..n -> AttrPool] : n \in 0..MaxAttrs}

InferredTags == {NoneTag, Some(<<"7">>)}

Idents == {"self.a"}

InitField ==
    /\ pc = "start"
    /\ attrs \in AttrLists
    /\ inferred_tag \in InferredTags
    /\ overflow_checks = FALSE   \* no default of AttrPool negates a minimum
    /\ res = FieldNone
    /\ enc = NoFragment
    /\ elen = NoFragment
    /\ IdleLit /\ IdleGen

FieldNew ==
    /\ pc = "start"
    /\ pc' = "new"
    /\ res' = Field_new(attrs, inferred_tag, overflow_checks)
    /\ UNCHANGED <<ty, lit, overflow_checks, dv, attrs, inferred_tag, enc, elen,
                   service, m_defs, methods, buf>>

\* new_oneof passes no inferred tag.
NewOneof ==
    /\ pc = "start"
    /\ inferred_tag = NoneTag
    /\ pc' = "new_oneof"
    /\ res' = Field_new_oneof(attrs, overflow_checks)
    /\ UNCHANGED <<ty, lit, overflow_checks, dv, attrs, inferred_tag, enc, elen,
                   service, m_defs, methods, buf>>

Encode ==
    /\ pc \in {"new", "new_oneof"}
    /\ res.ok = "Some"
    /\ enc = NoFragment
    /\ \E ident \in Idents : enc' = encode(res.field, ident)
    /\ UNCHANGED <<pc, ty, lit, overflow_checks, dv, attrs, inferred_tag, res, elen,
                   service, m_defs, methods, buf>>

EncodedLen ==
    /\ pc \in {"new", "new_oneof"}
    /\ res.ok = "Some"
    /\ elen = NoFragment
    /\ \E ident \in Idents : elen' = encoded_len(res.field, ident)
    /\ UNCHANGED <<pc, ty, lit, overflow_checks, dv, attrs, inferred_tag, res, enc,
                   service, m_defs, methods, buf>>

NextField == FieldNew \/ NewOneof \/ Encode \/ EncodedLen

SpecField == InitField /\ [][NextField]_vars

------------------------------------------------------------------------------
(* The generator as a state machine: a service descriptor and a buffer are *)
(* drawn, then ServiceGenerator::generate appends the client.              *)

\* Most methods a drawn service has.
MaxMethods == 2

T_helloworld == <<"h", "e", "l", "l", "o", "w", "o", "r", "l", "d">>

T_Greeter == <<"G", "r", "e", "e", "t", "e", "r">>

T_SayHello == <<"S", "a", "y", "H", "e", "l", "l", "o">>

T_say_hello == <<"s", "a", "y", "_", "h", "e", "l", "l", "o">>

T_HelloRequest == <<"H", "e", "l", "l", "o", "R", "e", "q", "u", "e", "s", "t">>

T_HelloReply == <<"H", "e", "l", "l", "o", "R", "e", "p", "l", "y">>

Packages == {T_helloworld, <<"a", ".", "b">>, <<" ", "P", " ">>, <<>>}

ServiceNames == {T_Greeter, <<"S">>}

ServiceProtoNames == {T_Greeter, <<"g", "r", "e", "e", "t", "e", "r">>, <<"s">>}

MethodPool ==
    {Method(T_say_hello, T_SayHello, T_HelloRequest, T_HelloReply),
     Method(<<"g", "e", "t">>, <<"G", "e", "t">>, T_HelloRequest, T_HelloRequest),
     Method(<<"p", "u", "t">>, <<"p", "u", "t">>, T_HelloReply, T_HelloReply),
     Method(<<"b", "a", "d">>, <<"B", " ", "d">>, T_HelloRequest, T_HelloReply)}

MethodLists == UNION {[1..n -> MethodPool] : n \in 0..MaxMethods}

Buffers == {<<>>, <<"messages">>}

InitGen ==
    /\ pc = "start"
    /\ service \in {Service(n, pn, pk, ms) :
                        n \in ServiceNames, pn \in ServiceProtoNames,
                        pk \in Packages, ms \in MethodLists}
    /\ buf \in Buffers
    /\ m_defs = <<>>
    /\ methods = <<>>
    /\ overflow_checks = FALSE
    /\ IdleLit /\ IdleField

\* ServiceGenerator::generate
Generate ==
    /\ pc = "start"
    /\ LET out == generate_client(service)
       IN  \/ /\ out.ok
              /\ pc' = "generated"
              /\ methods' = out.methods
              /\ m_defs' = out.m_defs
              /\ buf' = Append(buf, [mod_ident |-> out.mod_ident,
                                     service_ident |-> out.service_ident,
                                     m_defs |-> out.m_defs,
                                     methods |-> out.methods])
           \/ /\ ~out.ok
              /\ pc' = "panicked"
              /\ UNCHANGED <<methods, m_defs, buf>>
    /\ UNCHANGED <<ty, lit, overflow_checks, dv, attrs, inferred_tag, res, enc, elen,
                   service>>

NextGen == Generate

SpecGen == InitGen /\ [][NextGen]_vars

------------------------------------------------------------------------------
(* Claims about the field resolver (checked under SpecField).  The inputs  *)
(* of the kind resolution are read off the attribute list itself.          *)

Has(as, a) == \E i \in DOMAIN as : as[i] = a

HasNamed(as, n) == \E i \in DOMAIN as : as[i].name = n

CountNamed(as, ns) == Cardinality({i \in DOMAIN as : as[i].name \in ns})

TypeNames == {"int32", "string", "bytes", "enumeration"}

LabelNames == {"optional", "required", "repeated"}

HasType(as) == CountNamed(as, TypeNames) >= 1

\* The label, the packed flag and the scalar type an attribute list declares.
LabelIn(as) ==
    IF HasNamed(as, "optional") THEN "optional"
    ELSE IF HasNamed(as, "required") THEN "required"
    ELSE IF HasNamed(as, "repeated") THEN "repeated"
    ELSE "none"

PackedIn(as) ==
    IF Has(as, MetaPath("packed")) THEN "true"
    ELSE IF HasNamed(as, "packed") THEN "false"
    ELSE "absent"

NumericIn(as) == HasNamed(as, "int32") \/ HasNamed(as, "enumeration")

TypeIn(as) ==
    IF HasNamed(as, "int32") THEN Ty("Int32")
    ELSE IF HasNamed(as, "string") THEN Ty("String")
    ELSE IF HasNamed(as, "bytes") THEN Ty("Bytes")
    ELSE Enumeration(EnumPath)

\* The literal of the default attribute of a list that has one.
DefaultLitIn(as) == as[CHOOSE i \in DOMAIN as : as[i].name = "default"].lit

DeclaredDefault(as) ==
    IF HasNamed(as, "default")
    THEN from_lit(TypeIn(as), DefaultLitIn(as), FALSE)
    ELSE Ok(new(TypeIn(as)))

\* The attribute list reaches the kind resolution: one type, at most one
\* label, packed flag, tag and default, nothing unknown, a tag (declared or
\* inferred) and a default that resolves.
ReachesKind(as, inferred) ==
    /\ CountNamed(as, TypeNames) = 1
    /\ CountNamed(as, LabelNames) <= 1
    /\ CountNamed(as, {"packed"}) <= 1
    /\ CountNamed(as, {"tag"}) <= 1
    /\ CountNamed(as, {"default"}) <= 1
    /\ ~HasNamed(as, "foo")
    /\ (HasNamed(as, "tag") \/ inferred.some)
    /\ DeclaredDefault(as).ok = "Ok"

KindErrors == {E_PackedRepeated, E_PackedNumeric, E_RepeatedDefault}

Kinds == {"Plain", "Optional", "Required", "Repeated", "Packed"}

PackedResolved(as) ==
    IF PackedIn(as) = "absent" THEN NumericIn(as) ELSE PackedIn(as) = "true"

\* The kind the resolution table gives a combination that does not fail.
TableKind(as) ==
    IF LabelIn(as) = "none" THEN "Plain"
    ELSE IF LabelIn(as) = "optional" THEN "Optional"
    ELSE IF LabelIn(as) = "required" THEN "Required"
    ELSE IF PackedResolved(as) /\ ~HasNamed(as, "default") THEN "Packed"
    ELSE "Repeated"

\* C1: for every combination of label, packed flag, declared default and
\* scalar type that reaches the kind resolution, Field::new either fails with
\* one of the three kind-validation errors or returns a field whose kind is
\* the one the table gives: no label -> Plain(default), optional ->
\* Optional(default), required -> Required(default), repeated with packed
\* resolved true and no default -> Packed, repeated otherwise -> Repeated.
C1_KindResolutionTotal ==
    (pc = "new" /\ ReachesKind(attrs, inferred_tag)) =>
        \/ res.ok = "Err" /\ res.err \in KindErrors /\ res.field = NoField
        \/ /\ res.ok = "Some"
           /\ res.field.kind \in Kinds
           /\ res.field.kind = TableKind(attrs)
           /\ res.field.ty = TypeIn(attrs)
           /\ res.field.default =
                (IF res.field.kind \in {"Repeated", "Packed"} THEN NoDV
                 ELSE DeclaredDefault(attrs).val)

\* C1 witness: a repeated numeric field without packed flag and default has
\* resolved to Packed.
C1_Witness ==
    /\ pc = "new"
    /\ ReachesKind(attrs, inferred_tag)
    /\ LabelIn(attrs) = "repeated" /\ PackedIn(attrs) = "absent"
    /\ ~HasNamed(attrs, "default") /\ NumericIn(attrs)
    /\ res.ok = "Some" /\ res.field.kind = "Packed"

NotRepeated == {"none", "optional", "required"}

\* C2 (as claimed): a packed attribute, with either value, on a field whose
\* label is absent, optional or required makes Field::new fail with the
\* 'packed only valid on repeated fields' error.
C2_AnyPackedRejected ==
    (pc = "new" /\ ReachesKind(attrs, inferred_tag)
        /\ PackedIn(attrs) # "absent" /\ LabelIn(attrs) \in NotRepeated) =>
        res.ok = "Err" /\ res.err = E_PackedRepeated

\* C2 (amended): packed = true on a field whose label is absent, optional or
\* required makes Field::new fail with the 'packed only valid on repeated
\* fields' error; packed = false on such a field is accepted and the field
\* resolves to Plain, Optional or Required.
C2_PackedTrueRejected ==
    (pc = "new" /\ ReachesKind(attrs, inferred_tag) /\ LabelIn(attrs) \in NotRepeated) =>
        /\ PackedIn(attrs) = "true" =>
              res.ok = "Err" /\ res.err = E_PackedRepeated /\ res.field = NoField
        /\ PackedIn(attrs) = "false" =>
              res.ok = "Some" /\ res.field.kind \in {"Plain", "Optional", "Required"}

\* C2 witness: packed = true on an optional field has been rejected.
C2_Witness ==
    /\ pc = "new"
    /\ ReachesKind(attrs, inferred_tag)
    /\ PackedIn(attrs) = "true" /\ LabelIn(attrs) = "optional"
    /\ res.ok = "Err" /\ res.err = E_PackedRepeated

\* C3 (as claimed): a Packed field has a numeric type; packed = true on a
\* repeated string or bytes field fails with the 'packed only valid on
\* numeric types' error; packed = false or no packed flag on a repeated
\* string or bytes field yields Repeated.
C3_NonNumericYieldsRepeated ==
    /\ (pc = "new" /\ res.ok = "Some" /\ res.field.kind = "Packed") =>
          res.field.ty.name \notin {"String", "Bytes"}
    /\ (pc = "new" /\ ReachesKind(attrs, inferred_tag)
            /\ LabelIn(attrs) = "repeated" /\ ~NumericIn(attrs)) =>
          IF PackedIn(attrs) = "true"
          THEN res.ok = "Err" /\ res.err = E_PackedNumeric
          ELSE res.ok = "Some" /\ res.field.kind = "Repeated"

\* C3 (amended): a Packed field has a numeric type; packed = true on a
\* repeated string or bytes field fails with the 'packed only valid on
\* numeric types' error; packed = false or no packed flag on a repeated
\* string or bytes field yields Repeated when no default is declared and
\* fails with the 'repeated fields may not have a default' error when one
\* is: it never yields Packed.
C3_PackedOnlyNumeric ==
    /\ (pc = "new" /\ res.ok = "Some" /\ res.field.kind = "Packed") =>
          res.field.ty.name \notin {"String", "Bytes"}
    /\ (pc = "new" /\ ReachesKind(attrs, inferred_tag)
            /\ LabelIn(attrs) = "repeated" /\ ~NumericIn(attrs)) =>
          IF PackedIn(attrs) = "true"
          THEN res.ok = "Err" /\ res.err = E_PackedNumeric
          ELSE IF HasNamed(attrs, "default")
          THEN res.ok = "Err" /\ res.err = E_RepeatedDefault
          ELSE res.ok = "Some" /\ res.field.kind = "Repeated"

\* C3 witness: packed = false on a repeated bytes field has resolved to
\* Repeated.
C3_Witness ==
    /\ pc = "new"
    /\ HasNamed(attrs, "bytes") /\ LabelIn(attrs) = "repeated"
    /\ PackedIn(attrs) = "false"
    /\ res.ok = "Some" /\ res.field.kind = "Repeated"

\* C4: an attribute list with a scalar type, the repeated label and a default
\* attribute never yields a field: Field::new fails (with an error or, for a
\* default that is no identifier on an enumeration, a panic), whatever the
\* packed flag and the scalar type are.
C4_RepeatedDefaultFails ==
    (pc = "new" /\ HasType(attrs) /\ HasNamed(attrs, "repeated")
        /\ HasNamed(attrs, "default")) =>
        res.ok \in {"Err", "Panic"} /\ res.field = NoField

\* C4 witness: a repeated field with packed = false and a default that
\* resolves has been rejected for having a default.
C4_Witness ==
    /\ pc = "new"
    /\ ReachesKind(attrs, inferred_tag)
    /\ LabelIn(attrs) = "repeated" /\ PackedIn(attrs) = "false"
    /\ HasNamed(attrs, "default")
    /\ res.ok = "Err" /\ res.err = E_RepeatedDefault

\* What Field::new makes of the attribute list without an inferred tag.
AsPlain(as, oc) == Field_new(as, NoneTag, oc)

ResolvesPlain(as, oc) == AsPlain(as, oc).ok = "Some" /\ AsPlain(as, oc).field.kind = "Plain"

GuardHolds(frag, x) ==
    \/ frag.guard = "none"
    \/ /\ frag.guard \in {"is_default", "ne"}
       /\ (x # frag.default \/ frag.default.text \in {F32_NAN, F64_NAN})

Serialized(x) == GuardHolds(enc, x)

LengthOf(x) == IF GuardHolds(elen, x) THEN elen.call ELSE elen.orelse

\* Field values the fragments are evaluated on: the default and another.
FieldValues == {enc.default, elen.default, NoTokens}

\* C8: the encode fragment and the encoded-length fragment of a field have
\* the same conditionality.  For a Plain field both are guarded by the same
\* test against the same default: is_default on the bytes of the default for
\* string and bytes, != on the typed default otherwise, so the field is
\* serialized exactly when its length is field_len and omitted exactly when
\* its length is 0.  For the other kinds both are unconditional.
C8_EncodeLenSameCondition ==
    (enc # NoFragment /\ elen # NoFragment) =>
        /\ enc.guard = elen.guard
        /\ enc.default = elen.default
        /\ enc.ident = elen.ident /\ enc.tag = res.field.tag /\ elen.tag = res.field.tag
        /\ enc.call = "serialize" /\ elen.call = "field_len"
        /\ res.field.kind = "Plain" =>
              /\ elen.orelse = "0"
              /\ IF res.field.ty.name \in {"String", "Bytes"}
                 THEN /\ enc.guard = "is_default"
                      /\ enc.default.v = "Bytes" /\ enc.default.cast = "as &[u8]"
                      /\ enc.default.text = res.field.default.text
                 ELSE /\ enc.guard = "ne"
                      /\ enc.default = typed(res.field.default)
        /\ res.field.kind # "Plain" => enc.guard = "none" /\ elen.guard = "none"
        /\ \A x \in FieldValues :
              /\ Serialized(x) <=> LengthOf(x) = "field_len"
              /\ ~Serialized(x) <=> LengthOf(x) = "0"

\* C8 witness: both fragments of a Plain string field are emitted, guarded by
\* is_default on the default's bytes.
C8_Witness ==
    /\ enc # NoFragment /\ elen # NoFragment
    /\ res.field.kind = "Plain" /\ res.field.ty = Ty("String")
    /\ enc.guard = "is_default" /\ elen.guard = "is_default"
    /\ res.field.default.v = "String" /\ enc.default.v = "Bytes"

------------------------------------------------------------------------------
(* Claims about the generator (checked under SpecGen).                     *)

T_HelloPath ==
    <<"/", "h", "e", "l", "l", "o", "w", "o", "r", "l", "d", ".",
      "G", "r", "e", "e", "t", "e", "r", "/", "S", "a", "y", "H", "e", "l", "l", "o">>

\* C9: the PATH of every method definition is "/" + package + "." + the
\* service's proto name + "/" + the method's proto name, each component
\* verbatim; package helloworld, service Greeter and method SayHello give
\* "/helloworld.Greeter/SayHello".
C9_WirePath ==
    pc = "generated" =>
        /\ Len(m_defs) = Len(service.methods)
        /\ \A i \in DOMAIN m_defs :
              LET path == m_defs[i].PATH
                  pk == service.package
                  sp == service.proto_name
                  mp == service.methods[i].proto_name
              IN  /\ Len(path) = 3 + Len(pk) + Len(sp) + Len(mp)
                  /\ path[1] = "/"
                  /\ SubSeq(path, 2, 1 + Len(pk)) = pk
                  /\ path[2 + Len(pk)] = "."
                  /\ SubSeq(path, 3 + Len(pk), 2 + Len(pk) + Len(sp)) = sp
                  /\ path[3 + Len(pk) + Len(sp)] = "/"
                  /\ SubSeq(path, 4 + Len(pk) + Len(sp), Len(path)) = mp
                  /\ (pk = T_helloworld /\ sp = T_Greeter /\ mp = T_SayHello) =>
                        path = T_HelloPath
        /\ buf[Len(buf)].m_defs = m_defs

\* C9 witness: the client of a service whose Rust name differs from its
\* proto name is generated, with the helloworld path form for SayHello.
C9_Witness ==
    /\ pc = "generated"
    /\ service.package = T_helloworld
    /\ service.proto_name = T_Greeter
    /\ service.name # service.proto_name
    /\ Len(m_defs) = 2
    /\ service.methods[2].name = T_say_hello
    /\ m_defs[2].PATH = T_HelloPath

------------------------------------------------------------------------------
(* The field resolver on attribute lists with repeated, malformed and      *)
(* unknown attributes: the same actions as SpecField, from lists drawn     *)
(* from a pool that holds two values of each attribute.                    *)

\* Longest attribute list drawn from DupPool.
MaxDupAttrs == 3

DupPool ==
    {MetaPath("int32"),
     MetaNameValue("enumeration", LitStr(EnumPath)),
     MetaList("enumeration", <<>>),
     MetaPath("optional"), MetaPath("repeated"),
     MetaPath("packed"), MetaNameValue("packed", LitStr(T_false)),
     MetaNameValue("tag", LitStr(<<"1">>)),
     MetaNameValue("tag", LitStr(<<"2">>)),
     MetaNameValue("default", LitStr(<<"5">>)),
     MetaNameValue("default", LitStr(<<"z", "z">>)),
     MetaPath("default"),
     MetaPath("foo")}

DupLists == UNION {[1..n -> DupPool] : n \in 0..MaxDupAttrs}

InitDup ==
    /\ pc = "start"
    /\ attrs \in DupLists
    /\ inferred_tag \in InferredTags
    /\ overflow_checks = FALSE   \* no default of DupPool negates a minimum
    /\ res = FieldNone
    /\ enc = NoFragment
    /\ elen = NoFragment
    /\ IdleLit /\ IdleGen

SpecDup == InitDup /\ [][NextField]_vars

------------------------------------------------------------------------------
(* Claims about repeated attributes (checked under SpecDup).  An attribute *)
(* is classed by its name and judged well-formed by its shape alone.       *)

SemanticClass(a) ==
    IF a.name \in TypeNames THEN "type"
    ELSE IF a.name \in LabelNames THEN "label"
    ELSE IF a.name \in {"packed", "tag", "default"} THEN a.name
    ELSE "none"

WellFormedAttr(a) ==
    IF SemanticClass(a) = "type"
        THEN a.form = "Path" \/ (a.form = "NameValue" /\ a.lit.k = "Str")
                \/ (a.form = "List" /\ Len(a.nested) = 1)
    ELSE IF SemanticClass(a) = "label" THEN a.form = "Path"
    ELSE IF SemanticClass(a) = "packed"
        THEN a.form = "Path" \/ (a.form = "NameValue" /\ a.lit.text \in {T_true, T_false})
    ELSE IF SemanticClass(a) = "tag"
        THEN a.form = "NameValue" /\ Len(a.lit.text) > 0 /\ IsDigits(a.lit.text)
    ELSE IF SemanticClass(a) = "default" THEN a.form = "NameValue"
    ELSE TRUE

\* as[i] is a second (or later) occurrence of its semantic attribute.
SecondOccurrence(as, i) ==
    /\ SemanticClass(as[i]) # "none"
    /\ WellFormedAttr(as[i])
    /\ \E j \in 1..(i - 1) :
          SemanticClass(as[j]) = SemanticClass(as[i]) /\ WellFormedAttr(as[j])

HasDuplicate(as) == \E i \in DOMAIN as : SecondOccurrence(as, i)

FirstSecond(as) ==
    CHOOSE i \in DOMAIN as :
        SecondOccurrence(as, i) /\ \A k \in 1..(i - 1) : ~SecondOccurrence(as, k)

MalformedBefore(as, i) == \E k \in 1..(i - 1) : ~WellFormedAttr(as[k])

DuplicateError(class) ==
    IF class = "type" THEN "duplicate type attributes"
    ELSE IF class = "label" THEN "duplicate label attributes"
    ELSE IF class = "packed" THEN "duplicate packed attributes"
    ELSE IF class = "tag" THEN "duplicate tag attributes"
    ELSE "duplicate default attributes"

DuplicateErrors == {DuplicateError(c) : c \in {"type", "label", "packed", "tag", "default"}}

DuplicatedClasses(as) == {SemanticClass(as[i]) : i \in {k \in DOMAIN as : SecondOccurrence(as, k)}}

CleanList(as) ==
    /\ ~HasDuplicate(as)
    /\ \A i \in DOMAIN as : WellFormedAttr(as[i])

UnknownErrors == {"unknown attribute", "unknown attributes"}

E_MissingTag == "missing tag attribute"

\* The errors Field::new raises after its attribute loop.
LateErrors == UnknownErrors \cup {E_MissingTag, InvalidDefault} \cup KindErrors

\* C14: an attribute list without type attribute and without repeated or
\* malformed attribute makes Field::new return Ok(None), not an error, also
\* when it holds unknown attributes, has no tag at all or declares a default
\* that does not parse.  With a type attribute the unknown-attribute, the
\* missing-tag, the invalid-default and the kind-validation errors are raised
\* in this order of precedence, and none of them is raised without one.
C14_NoTypeNoMatch ==
    pc = "new" =>
        /\ (CleanList(attrs) /\ ~HasType(attrs)) => res = FieldNone
        /\ (CleanList(attrs) /\ HasType(attrs)) =>
              IF HasNamed(attrs, "foo")
                  THEN res.ok = "Err" /\ res.err \in UnknownErrors
              ELSE IF ~HasNamed(attrs, "tag") /\ ~inferred_tag.some
                  THEN res.ok = "Err" /\ res.err = E_MissingTag
              ELSE IF DeclaredDefault(attrs).ok = "Err"
                  THEN res.ok = "Err" /\ res.err = InvalidDefault
              ELSE IF DeclaredDefault(attrs).ok = "Panic"
                  THEN res.ok = "Panic"
              ELSE (res.ok = "Err" /\ res.err \in KindErrors) \/ res.ok = "Some"
        /\ (res.ok = "Err" /\ res.err \in LateErrors) => HasType(attrs)

\* C14 witness: a list with an unknown attribute and a default, without type
\* and without any tag, has been answered with Ok(None).
C14_Witness ==
    /\ pc = "new"
    /\ ~HasType(attrs)
    /\ HasNamed(attrs, "foo") /\ HasNamed(attrs, "default")
    /\ ~HasNamed(attrs, "tag") /\ ~inferred_tag.some
    /\ CleanList(attrs)
    /\ res = FieldNone

------------------------------------------------------------------------------
Init == InitLit \/ InitField \/ InitDup \/ InitGen

Next == NextLit \/ NextField \/ NextGen

Spec == Init /\ [][Next]_vars

====
